---- MODULE Spec2Model ----
(***************************************************************************)
(* Model of the aggregation pipeline of the Manaus monitoring dashboard:   *)
(*   views/cemaden.py       alert thresholds, classifiers, name cleaning   *)
(*   views/monitoramento.py classifiers and the update_dashboard refresh   *)
(*                                                                         *)
(* Units.  Rain totals handed to the classifiers are integers in tenths of *)
(* a millimetre (69.9 mm is 699, 70 mm is 700).  A missing number (NaN) is *)
(* the integer NaN, outside every range of values used.                    *)
(***************************************************************************)
EXTENDS Integers, Sequences, FiniteSets, TLC

VARIABLES
    valor,        \* the 24h rain total handed to the classifiers (tenths of mm)
    alerta,       \* what each classifier returned for valor
    nome_sujo,    \* the raw station name handed to limpar_nome_estacao
    nome_limpo,   \* its result
    nome_relimpo, \* the result of cleaning nome_limpo again
    fase,         \* how far the name has been processed
    tabela,       \* the rows of table defesa_civil, as the query returns them
    saida,        \* what the last update_dashboard computed
    sens_t,       \* the temperature handed to calcular_sensacao (1/100 degree C)
    sens_rh,      \* the relative humidity handed to it (percent)
    sens_tipo,    \* the type of the two numbers: "float" or "numpy.float64"
    sensacao,     \* what calcular_sensacao returned
    leitura,      \* how ler_dados fares: "ok", "erro" or "sem_data_hora"
    retorno,      \* the outputs the last update_dashboard returned to Dash
    tabela_cemaden,  \* the rows of table cemaden, as the query returns them
    saida_cemaden,   \* what the last update_cemaden computed
    retorno_cemaden, \* the outputs the last update_cemaden returned to Dash
    relatorio        \* what the last get_data of the report page returned

vars == <<valor, alerta, nome_sujo, nome_limpo, nome_relimpo, fase, tabela, saida,
          sens_t, sens_rh, sens_tipo, sensacao, leitura, retorno,
          tabela_cemaden, saida_cemaden, retorno_cemaden, relatorio>>

varsAlerta == <<valor, alerta>>
varsNome == <<nome_sujo, nome_limpo, nome_relimpo, fase>>
varsPainel == <<tabela, saida, leitura, retorno>>
varsCemaden == <<tabela_cemaden, saida_cemaden, retorno_cemaden>>
varsSensacao == <<sens_t, sens_rh, sens_tipo, sensacao>>
varsRelatorio == <<relatorio>>

(***************************************************************************)
(* Missing values                                                          *)
(***************************************************************************)
NaN == -1000000

isna(v) == v = NaN

\* Python/NumPy comparisons: any comparison with NaN is False.
Gt(a, b) == ~isna(a) /\ ~isna(b) /\ a > b
Ge(a, b) == ~isna(a) /\ ~isna(b) /\ a >= b
Lt(a, b) == ~isna(a) /\ ~isna(b) /\ a < b

(***************************************************************************)
(* Alert classification (tenths of mm)                                     *)
(***************************************************************************)
MaxValor == 800

Valores == ((0 - MaxValor)..MaxValor) \cup {NaN}

LIMIARES ==
    [n \in {"NORMAL", "OBSERVAÇÃO", "ATENÇÃO", "CRÍTICO"} |->
        CASE n = "NORMAL"     -> [min |-> 0,   max |-> 99,   cor |-> "#2ecc71"]
          [] n = "OBSERVAÇÃO" -> [min |-> 100, max |-> 299,  cor |-> "#f1c40f"]
          [] n = "ATENÇÃO"    -> [min |-> 300, max |-> 700,  cor |-> "#e67e22"]
          [] n = "CRÍTICO"    -> [min |-> 700, max |-> 9990, cor |-> "#e74c3c"]]

\* The same classifier with the top breakpoint inclusive.
get_nivel_alerta_ge(v) ==
    IF Ge(v, LIMIARES["CRÍTICO"].min) THEN "CRÍTICO"
    ELSE IF Ge(v, LIMIARES["ATENÇÃO"].min) THEN "ATENÇÃO"
    ELSE IF Ge(v, LIMIARES["OBSERVAÇÃO"].min) THEN "OBSERVAÇÃO"
    ELSE "NORMAL"

\* cemaden.py get_nivel_alerta
get_nivel_alerta(v) ==
    IF Gt(v, LIMIARES["CRÍTICO"].min) THEN "CRÍTICO"
    ELSE IF Ge(v, LIMIARES["ATENÇÃO"].min) THEN "ATENÇÃO"
    ELSE IF Ge(v, LIMIARES["OBSERVAÇÃO"].min) THEN "OBSERVAÇÃO"
    ELSE "NORMAL"

\* The colour with the top breakpoint inclusive.
get_color_code_cemaden_ge(v) ==
    IF Ge(v, 700) THEN "#e74c3c"
    ELSE IF Ge(v, 300) THEN "#e67e22"
    ELSE IF Ge(v, 100) THEN "#f1c40f"
    ELSE "#2ecc71"

\* cemaden.py get_color_code
get_color_code_cemaden(v) ==
    IF Gt(v, 700) THEN "#e74c3c"
    ELSE IF Ge(v, 300) THEN "#e67e22"
    ELSE IF Ge(v, 100) THEN "#f1c40f"
    ELSE "#2ecc71"

\* cemaden.py get_categoria_status
get_categoria_status_cemaden(v) ==
    IF Gt(v, 700) THEN "CRÍTICO"
    ELSE IF Ge(v, 300) THEN "ATENÇÃO"
    ELSE IF Ge(v, 100) THEN "OBSERVAÇÃO"
    ELSE "NORMAL"

\* monitoramento.py get_color_code
get_color_code(v) ==
    IF isna(v) THEN "#95a5a6"
    ELSE IF Gt(v, 700) THEN "#e74c3c"
    ELSE IF Ge(v, 300) THEN "#e67e22"
    ELSE IF Ge(v, 100) THEN "#f1c40f"
    ELSE "#2ecc71"

\* The same classifier with its last comparison reversed.
get_categoria_status_rev(v) ==
    IF isna(v) THEN "SEM DADOS"
    ELSE IF Gt(v, 700) THEN "CRÍTICO (>70mm)"
    ELSE IF Ge(v, 300) THEN "ATENÇÃO (30-70mm)"
    ELSE IF Lt(v, 100) THEN "OBSERVAÇÃO (10-30mm)"
    ELSE "NORMAL (<10mm)"

\* monitoramento.py get_categoria_status
get_categoria_status(v) ==
    IF isna(v) THEN "SEM DADOS"
    ELSE IF Gt(v, 700) THEN "CRÍTICO (>70mm)"
    ELSE IF Ge(v, 300) THEN "ATENÇÃO (30-70mm)"
    ELSE IF Ge(v, 100) THEN "OBSERVAÇÃO (10-30mm)"
    ELSE "NORMAL (<10mm)"

Pendente == [nivel |-> "-", status |-> "-", cor |-> "-",
             categoria |-> "-", cor_mun |-> "-"]

\* The five classifiers applied to one 24h total, as a refresh applies them
\* to a station's total for the ranking, the cards, the bars and the map.
Classificacao(v) ==
    [nivel     |-> get_nivel_alerta(v),
     status    |-> get_categoria_status_cemaden(v),
     cor       |-> get_color_code_cemaden(v),
     categoria |-> get_categoria_status(v),
     cor_mun   |-> get_color_code(v)]

(***************************************************************************)
(* Station-name cleaning (cemaden.py limpar_nome_estacao)                  *)
(*                                                                         *)
(* A name is a sequence of symbols.  "CEMADEN -" stands for those nine     *)
(* characters, which occur in the names considered only as that unit, so   *)
(* the literal "CEMADEN - " is the two symbols <<"CEMADEN -", " ">>.  "x"  *)
(* stands for any character that is neither white space nor a bracket.     *)
(***************************************************************************)
Alfabeto == {"CEMADEN -", " ", "(", ")", "[", "]", "x"}

Prefixo == <<"CEMADEN -", " ">>

EhEspaco(c) == c = " "
EhAbre(c) == c \in {"(", "["}
EhFecha(c) == c \in {")", "]"}

\* str.replace(old, ""): every non-overlapping occurrence, left to right.
RECURSIVE replace(_, _)
replace(s, old) ==
    IF Len(s) < Len(old) THEN s
    ELSE IF SubSeq(s, 1, Len(old)) = old
         THEN replace(SubSeq(s, Len(old) + 1, Len(s)), old)
         ELSE <<s[1]>> \o replace(Tail(s), old)

\* The first index >= i of s that holds no white space (Len(s) + 1 if none).
RECURSIVE FimEspacos(_, _)
FimEspacos(s, i) ==
    IF i > Len(s) \/ ~EhEspaco(s[i]) THEN i ELSE FimEspacos(s, i + 1)

\* The first index >= i of s that holds a closing bracket (0 if none).
RECURSIVE PrimeiroFecha(_, _)
PrimeiroFecha(s, i) ==
    IF i > Len(s) THEN 0
    ELSE IF EhFecha(s[i]) THEN i ELSE PrimeiroFecha(s, i + 1)

\* re.sub(r'\s*[\(\[].*?[\)\]]', '', s) from index i on: at each index the
\* pattern matches when the greedy white-space run is followed by an opening
\* bracket and a closing bracket occurs later; the match ends at the first
\* such closing bracket and the scan resumes behind it.
RECURSIVE re_sub_from(_, _)
re_sub_from(s, i) ==
    IF i > Len(s) THEN <<>>
    ELSE LET j == FimEspacos(s, i)
             k == IF j <= Len(s) /\ EhAbre(s[j]) THEN PrimeiroFecha(s, j + 1) ELSE 0
         IN  IF k # 0 THEN re_sub_from(s, k + 1)
             ELSE <<s[i]>> \o re_sub_from(s, i + 1)

re_sub(s) == re_sub_from(s, 1)

RECURSIVE lstrip(_)
lstrip(s) == IF s # <<>> /\ EhEspaco(s[1]) THEN lstrip(Tail(s)) ELSE s

RECURSIVE rstrip(_)
rstrip(s) ==
    IF s # <<>> /\ EhEspaco(s[Len(s)]) THEN rstrip(SubSeq(s, 1, Len(s) - 1)) ELSE s

strip(s) == lstrip(rstrip(s))

\* limpar_nome_estacao without the final strip().
limpar_nome_estacao_sem_strip(nome) == re_sub(replace(nome, Prefixo))

\* cemaden.py limpar_nome_estacao, on a str
limpar_nome_estacao(nome) == strip(re_sub(replace(nome, Prefixo)))

\* Sequences over S of length at most n.
SeqAte(S, n) == UNION {[1..k -> S] : k \in 0..n}

MaxLen == 5
MaxBase == 3
MaxAnotacao == 2

\* Raw names: every name of at most MaxLen symbols, and the names
\* "CEMADEN - " + base + " (" + anotacao + ")" (or with square brackets) with
\* a base free of brackets.
NomesLivres == SeqAte(Alfabeto, MaxLen)

Bases == SeqAte({"CEMADEN -", " ", "x"}, MaxBase)

Anotacoes == SeqAte(Alfabeto, MaxAnotacao)

Formatado(base, abre, anot, fecha) ==
    Prefixo \o base \o <<" ", abre>> \o anot \o <<fecha>>

NomesFormatados ==
    {Formatado(b, "(", a, ")") : b \in Bases, a \in Anotacoes}
    \cup {Formatado(b, "[", a, "]") : b \in Bases, a \in Anotacoes}

NomesBrutos == NomesLivres \cup NomesFormatados

(***************************************************************************)
(* Heat index (monitoramento.py calcular_sensacao)                         *)
(*                                                                         *)
(* Temperatures are integers in hundredths of a degree Celsius, humidity   *)
(* is in percent.  The exponential is tabulated for the temperatures       *)
(* considered, in hundredths of hPa rounded down.                          *)
(***************************************************************************)
ZeroAbsoluto == -27315

Temperaturas == {NaN, ZeroAbsoluto, -1000, 0, 1000, 2000, 2500, 3000, 4000}

Umidades == {NaN, 0, 20, 40, 60, 80, 100}

Tipos == {"float", "numpy.float64"}

\* 6.11 * np.exp(5417.7530 * (1/273.16 - 1/(273.15 + t))), for 1/(273.15 + t)
\* finite; with 1/(273.15 + t) infinite the exponential is 0.
pressao_vapor(t) ==
    CASE t = -1000 -> 287
      [] t = 0     -> 610
      [] t = 1000  -> 1230
      [] t = 2000  -> 2362
      [] t = 2500  -> 3221
      [] t = 3000  -> 4346
      [] t = 4000  -> 7691
      [] t = ZeroAbsoluto -> 0

\* t + 0.5555 * (6.11 * np.exp(...) * (rh/100) - 10).  Arithmetic on NaN gives
\* NaN.  At 273.15 + t = 0 the division raises ZeroDivisionError on a Python
\* float and gives inf (with a warning) on a numpy.float64.
formula(t, rh, tipo) ==
    IF ~isna(t) /\ t = ZeroAbsoluto /\ tipo = "float"
    THEN [erro |-> TRUE, valor |-> NaN]
    ELSE IF isna(t) \/ isna(rh) THEN [erro |-> FALSE, valor |-> NaN]
    ELSE [erro |-> FALSE,
          valor |-> t + ((5555 * ((pressao_vapor(t) * rh) \div 100 - 1000)) \div 10000)]

\* The revision without the pd.isna test (views/bkp/monitoramento.py).
calcular_sensacao_bkp(t, rh, tipo) ==
    LET f == formula(t, rh, tipo)
    IN  IF f.erro THEN [excecao |-> FALSE, valor |-> t]
        ELSE [excecao |-> FALSE, valor |-> f.valor]

\* monitoramento.py calcular_sensacao: what it returns, and whether an
\* exception leaves it.
calcular_sensacao(t, rh, tipo) ==
    IF isna(t) \/ isna(rh) THEN [excecao |-> FALSE, valor |-> t]
    ELSE LET f == formula(t, rh, tipo)
         IN  IF f.erro THEN [excecao |-> FALSE, valor |-> t]
             ELSE [excecao |-> FALSE, valor |-> f.valor]

SemSensacao == [excecao |-> FALSE, valor |-> NaN, feito |-> FALSE]

(***************************************************************************)
(* The municipal refresh (monitoramento.py update_dashboard)               *)
(*                                                                         *)
(* Time is counted in instants.  A resampling bucket ('1min' in the        *)
(* source) holds SubPorTick instants, and an hour holds TicksPorHora       *)
(* buckets (60 in the source; the model coarsens the grid and keeps the    *)
(* window lengths of 1, 6, 12 and 24 hours).  A row of the table is        *)
(* [nome_estacao, tempo, chuva_mm, temp_ar]; temp_ar stands for the five   *)
(* continuous columns, which the code treats alike.  chuva_mm is a whole   *)
(* number of millimetres or NaN.  Resampled continuous values are exact    *)
(* fractions [n, d] in lowest terms, with d = 0 for NaN.                   *)
(***************************************************************************)
SubPorTick == 2
TicksPorHora == 1

Tick == SubPorTick
Hora == TicksPorHora * Tick
Dia == 24 * Hora

Max(S) == CHOOSE x \in S : \A y \in S : y <= x
Min(S) == CHOOSE x \in S : \A y \in S : x <= y

RECURSIVE GCD(_, _)
GCD(a, b) == IF b = 0 THEN a ELSE GCD(b, a % b)

Abs(x) == IF x < 0 THEN 0 - x ELSE x

QNaN == [n |-> 0, d |-> 0]

Qisna(q) == q.d = 0

\* The fraction n / d (d > 0) in lowest terms.
Q(n, d) ==
    LET g == GCD(Abs(n), d)
    IN  IF n < 0 THEN [n |-> 0 - (Abs(n) \div g), d |-> d \div g]
        ELSE [n |-> n \div g, d |-> d \div g]

QDe(v) == IF isna(v) THEN QNaN ELSE [n |-> v, d |-> 1]

QLe(a, b) == a.n * b.d <= b.n * a.d

\* The sequence f, held as a tuple of its values.
Tupla(f) == f \o <<>>

\* The rows of df at the indices in K, in the order of df.
Linhas(df, K) ==
    LET R[i \in 0..Len(df)] ==
            IF i = 0 THEN <<>>
            ELSE IF i \in K THEN Append(R[i - 1], df[i]) ELSE R[i - 1]
    IN  R[Len(df)]

\* The sum of a sequence of integers.
Soma(s) ==
    LET R[i \in 0..Len(s)] == IF i = 0 THEN 0 ELSE R[i - 1] + s[i]
    IN  R[Len(s)]

\* A value of the table that is no number (a text such as 'erro').
Malformado == -2000000

\* pd.to_numeric(v, errors='coerce'): NaN where it cannot parse.
to_numeric(v) == IF v = Malformado THEN NaN ELSE v

\* The loop over cols_num: every numeric column coerced, the rest untouched.
coagir(df) ==
    Tupla([i \in 1..Len(df) |->
        [nome_estacao |-> df[i].nome_estacao,
         tempo        |-> df[i].tempo,
         chuva_mm     |-> to_numeric(df[i].chuva_mm),
         temp_ar      |-> to_numeric(df[i].temp_ar)]])

\* df.drop_duplicates(subset=['nome_estacao', 'tempo'], keep='first')
drop_duplicates_first(df) ==
    Linhas(df, {i \in 1..Len(df) :
                  ~\E j \in 1..(i - 1) :
                      /\ df[j].nome_estacao = df[i].nome_estacao
                      /\ df[j].tempo = df[i].tempo})

\* df.drop_duplicates(subset=['nome_estacao', 'tempo'], keep='last')
drop_duplicates(df) ==
    Linhas(df, {i \in 1..Len(df) :
                  ~\E j \in (i + 1)..Len(df) :
                      /\ df[j].nome_estacao = df[i].nome_estacao
                      /\ df[j].tempo = df[i].tempo})

\* df_est.sort_values('tempo'): the rows in ascending order of tempo (the rows
\* of one station have distinct instants after drop_duplicates).
sort_values(df) ==
    LET pos(i) == Cardinality({j \in 1..Len(df) :
                     \/ df[j].tempo < df[i].tempo
                     \/ (df[j].tempo = df[i].tempo /\ j <= i)})
    IN  Tupla([k \in 1..Len(df) |-> df[CHOOSE i \in 1..Len(df) : pos(i) = k]])

\* The bucket of an instant: resample('1min') floors to the bucket's start.
Balde(t) == t \div Tick

\* The buckets of chuva_mm with a value only, the empty ones left out.
resample_max_sem_vazios(df_est) ==
    LET B == {Balde(df_est[j].tempo) : j \in {i \in 1..Len(df_est) :
                                               ~isna(df_est[i].chuva_mm)}}
        R[k \in 0..Len(df_est)] ==
            IF k = 0 THEN <<>>
            ELSE IF /\ Balde(df_est[k].tempo) \in B
                    /\ ~\E j \in (k + 1)..Len(df_est) :
                           Balde(df_est[j].tempo) = Balde(df_est[k].tempo)
                 THEN Append(R[k - 1],
                        Max({df_est[i].chuva_mm : i \in {j \in 1..Len(df_est) :
                               /\ Balde(df_est[j].tempo) = Balde(df_est[k].tempo)
                               /\ ~isna(df_est[j].chuva_mm)}}))
                 ELSE R[k - 1]
    IN  R[Len(df_est)]

\* resample('1min').max() of chuva_mm: per bucket from the first row's to the
\* last row's, the greatest non-NaN value, NaN for a bucket without one.
resample_max(df_est) ==
    LET b0 == Balde(df_est[1].tempo)
        b1 == Balde(df_est[Len(df_est)].tempo)
    IN  Tupla([k \in 1..(b1 - b0 + 1) |->
            LET V == {df_est[i].chuva_mm : i \in {j \in 1..Len(df_est) :
                         /\ Balde(df_est[j].tempo) = b0 + k - 1
                         /\ ~isna(df_est[j].chuva_mm)}}
            IN  IF V = {} THEN NaN ELSE Max(V)])

\* resample('1min').mean() of temp_ar: the mean of the bucket's non-NaN values.
resample_mean(df_est) ==
    LET b0 == Balde(df_est[1].tempo)
        b1 == Balde(df_est[Len(df_est)].tempo)
    IN  Tupla([k \in 1..(b1 - b0 + 1) |->
            LET I == {j \in 1..Len(df_est) :
                         /\ Balde(df_est[j].tempo) = b0 + k - 1
                         /\ ~isna(df_est[j].temp_ar)}
                R[i \in 0..Len(df_est)] ==
                    IF i = 0 THEN 0
                    ELSE R[i - 1] + (IF i \in I THEN df_est[i].temp_ar ELSE 0)
            IN  IF I = {} THEN QNaN ELSE Q(R[Len(df_est)], Cardinality(I))])

\* No forward fill: the series as it is.
ffill_nenhum(s) == Tupla(s)

\* Series.ffill(): a NaN takes the last non-NaN value before it, if any.
ffill(s) ==
    LET R[i \in 1..Len(s)] ==
            IF ~isna(s[i]) THEN s[i] ELSE IF i = 1 THEN NaN ELSE R[i - 1]
    IN  Tupla([i \in 1..Len(s) |-> R[i]])

\* No fallback value: the series as it is.
fillna_nada(s, v) == Tupla(s)

\* Series.fillna(v)
fillna(s, v) == Tupla([i \in 1..Len(s) |-> IF isna(s[i]) THEN v ELSE s[i]])

\* The difference taken the other way round.
diff_invertido(s) ==
    Tupla([i \in 1..Len(s) |->
        IF i = 1 \/ isna(s[i]) \/ isna(s[i - 1]) THEN NaN ELSE s[i - 1] - s[i]])

\* Series.diff(): NaN first, then the difference to the previous element.
diff(s) ==
    Tupla([i \in 1..Len(s) |->
        IF i = 1 \/ isna(s[i]) \/ isna(s[i - 1]) THEN NaN ELSE s[i] - s[i - 1]])

\* The clamp with the comparison turned round.
clamp_gt(s) == Tupla([i \in 1..Len(s) |-> IF Gt(s[i], 0) THEN 0 ELSE s[i]])

\* df_res.loc[df_res['chuva_delta'] < 0, 'chuva_delta'] = 0
clamp(s) == Tupla([i \in 1..Len(s) |-> IF Lt(s[i], 0) THEN 0 ELSE s[i]])

\* Every NaN after a value repeats that value, no line drawn.
interpolate_pad(s) ==
    Tupla([i \in 1..Len(s) |->
        IF ~Qisna(s[i]) THEN s[i]
        ELSE LET A == {j \in 1..(i - 1) : ~Qisna(s[j])}
             IN  IF A = {} THEN QNaN ELSE s[Max(A)]])

\* Series.interpolate(method='linear'): a NaN between two values lies on the
\* line between the nearest value on each side (by position), a NaN after the
\* last value repeats it, and a NaN before the first value stays NaN.
interpolate(s) ==
    Tupla([i \in 1..Len(s) |->
        IF ~Qisna(s[i]) THEN s[i]
        ELSE LET A == {j \in 1..(i - 1) : ~Qisna(s[j])}
                 D == {j \in (i + 1)..Len(s) : ~Qisna(s[j])}
             IN  IF A = {} THEN QNaN
                 ELSE IF D = {} THEN s[Max(A)]
                 ELSE LET p == Max(A)
                          q == Min(D)
                          a == s[p]
                          b == s[q]
                      IN  \* a + (b - a) * (i - p) / (q - p)
                          Q(a.n * b.d * (q - p) + (b.n * a.d - a.n * b.d) * (i - p),
                            a.d * b.d * (q - p))])

\* The body of the loop over df.groupby('nome_estacao'): the resampled rows
\* of one station.  acum is df_res['chuva_mm'] as it stands after the
\* forward fill, before the deltas overwrite it.
tratar_estacao(estacao, df_grupo) ==
    LET df_est == sort_values(df_grupo)
        b0 == Balde(df_est[1].tempo)
        temp == interpolate(resample_mean(df_est))
        acum == fillna(ffill(resample_max(df_est)), 0)
        chuva_delta == clamp(fillna(diff(acum), 0))
    IN  Tupla([k \in 1..Len(acum) |->
            [nome_estacao |-> estacao,
             tempo        |-> (b0 + k - 1) * Tick,
             temp_ar      |-> temp[k],
             acum         |-> acum[k],
             chuva_delta  |-> chuva_delta[k],
             chuva_mm     |-> chuva_delta[k]]])

\* The station names in ascending order, as groupby and sorted() yield them:
\* two spellings of one station.
Estacoes == <<"EST_MINDU", "EST_MINDU (B)">>

\* The station names as a set.
NomesEstacoes == {Estacoes[k] : k \in 1..Len(Estacoes)}

\* A station name as the sequence of symbols limpar_nome_estacao reads.
Simbolos(nome) ==
    IF nome = "EST_MINDU" THEN [i \in 1..9 |-> "x"]
    ELSE [i \in 1..9 |-> "x"] \o <<" ", "(", "x", ")">>

DaEstacao(df, e) == Linhas(df, {i \in 1..Len(df) : df[i].nome_estacao = e})

\* pd.concat(dfs_tratados): the resampled rows of every station with rows.
tratar(df) ==
    LET R[k \in 0..Len(Estacoes)] ==
            IF k = 0 THEN <<>>
            ELSE LET g == DaEstacao(df, Estacoes[k])
                 IN  IF g = <<>> THEN R[k - 1]
                     ELSE R[k - 1] \o tratar_estacao(Estacoes[k], g)
    IN  R[Len(Estacoes)]

\* The window column with the comparison turned round.
ch_janela_fora(g, agora, h) ==
    Tupla([i \in 1..Len(g) |->
        IF g[i].tempo < agora - h * Hora THEN g[i].chuva_mm ELSE 0])

\* df_completo['chuva_mm'].where(df_completo['tempo'] >= agora - h hours, 0)
ch_janela(g, agora, h) ==
    Tupla([i \in 1..Len(g) |->
        IF g[i].tempo >= agora - h * Hora THEN g[i].chuva_mm ELSE 0])

\* groupby('nome_estacao').agg(agg_rules) for one station of df_completo;
\* agora is df_completo['tempo'].max().
medias_estacao(df_completo, e, agora) ==
    LET g == DaEstacao(df_completo, e)
        n == Len(g)
        T == {i \in 1..n : ~Qisna(g[i].temp_ar)}
    IN  [nome_estacao |-> e,
         tempo_last   |-> g[n].tempo,
         ch_1h_sum    |-> Soma(ch_janela(g, agora, 1)),
         ch_6h_sum    |-> Soma(ch_janela(g, agora, 6)),
         ch_12h_sum   |-> Soma(ch_janela(g, agora, 12)),
         chuva_mm_sum |-> Soma(Tupla([i \in 1..n |-> g[i].chuva_mm])),
         temp_ar_min  |-> IF T = {} THEN QNaN
                          ELSE g[CHOOSE i \in T : \A j \in T : QLe(g[i].temp_ar, g[j].temp_ar)].temp_ar,
         temp_ar_max  |-> IF T = {} THEN QNaN
                          ELSE g[CHOOSE i \in T : \A j \in T : QLe(g[j].temp_ar, g[i].temp_ar)].temp_ar]

\* f"{q:.0f}": the fraction q rounded to a whole number, halves to even.
formatar0(q) ==
    LET a == q.n \div q.d
        r == q.n - a * q.d
    IN  IF 2 * r < q.d THEN a
        ELSE IF 2 * r > q.d THEN a + 1
        ELSE IF a % 2 = 0 THEN a ELSE a + 1

\* safe_get(key): the value, or the default 0 when it is null.
safe_get(v) == IF Qisna(v) THEN QDe(0) ELSE v

\* One row of cards_medias: the station, the time of its last row, the
\* lowest and highest temperature as printed and the four rain badges.
card_media(row) ==
    [nome_estacao |-> row.nome_estacao,
     tempo_last   |-> row.tempo_last,
     temp_ar_min  |-> formatar0(safe_get(row.temp_ar_min)),
     temp_ar_max  |-> formatar0(safe_get(row.temp_ar_max)),
     c_1h  |-> row.ch_1h_sum,
     c_6h  |-> row.ch_6h_sum,
     c_12h |-> row.ch_12h_sum,
     c_24h |-> row.chuva_mm_sum]

\* if est_filt: df = df[df['nome_estacao'] == est_filt];
\* if df.empty: df = df_completo.  No choice in the dropdown is "".
filtrar(df_completo, est_filt) ==
    LET df == DaEstacao(df_completo, est_filt)
    IN  IF est_filt = "" \/ df = <<>> THEN df_completo ELSE df

SemExtremo == [valor |-> QNaN, nome_estacao |-> "-", tempo |-> -1]

\* get_ext('temp_ar', f): idxmax / idxmin give the first row of df, in the
\* order of the frame, that holds the extreme value; "-" without any value.
get_ext(df, f) ==
    LET T == {i \in 1..Len(df) : ~Qisna(df[i].temp_ar)}
        E == {i \in T : \A j \in T :
                 IF f = "max" THEN QLe(df[j].temp_ar, df[i].temp_ar)
                 ELSE QLe(df[i].temp_ar, df[j].temp_ar)}
    IN  IF T = {} THEN SemExtremo
        ELSE [valor |-> df[Min(E)].temp_ar,
              nome_estacao |-> df[Min(E)].nome_estacao,
              tempo |-> df[Min(E)].tempo]

\* The copy taken after the station filter.
df_copy_tardio(df, filtrado) == filtrado

\* df_completo = df.copy(): the frame as it stands before the station filter
\* (filtrado is what the filter makes of it afterwards).
df_copy(df, filtrado) == df

\* One row of df_completo.sort_values('tempo').groupby('nome_estacao').last():
\* per column the last value of the station that is not null.
ultimas_estacao(df_completo, e) ==
    LET g == DaEstacao(df_completo, e)
        n == Len(g)
        T == {i \in 1..n : ~Qisna(g[i].temp_ar)}
    IN  [nome_estacao |-> e,
         tempo        |-> g[n].tempo,
         chuva_mm     |-> g[n].chuva_mm,
         temp_ar      |-> IF T = {} THEN QNaN ELSE g[Max(T)].temp_ar]

\* The keys of COORDENADAS.
COORDENADAS == {"EST_SEMULSP", "EST_MINDU", "ANNA RAYMUNDA", "EST_PONTA_NEGRA"}

\* One marker of the map: the station, its 24h total (mm) and the status
\* get_categoria_status gives it.
marcador(u, m) ==
    [nome_estacao |-> u.nome_estacao,
     chuva_mm_sum |-> m.chuva_mm_sum,
     status       |-> get_categoria_status(10 * m.chuva_mm_sum)]

\* The merge of ultimas and medias with every station kept.
df_mapa_sem_dropna(ultimas, medias) ==
    Tupla([k \in 1..Len(ultimas) |->
        marcador(ultimas[k],
                 medias[CHOOSE j \in 1..Len(medias) :
                            medias[j].nome_estacao = ultimas[k].nome_estacao])])

\* df_mapa: pd.merge(ultimas, medias) on nome_estacao, lat and lon looked up
\* in COORDENADAS, and dropna(subset=['lat']).
df_mapa(ultimas, medias) ==
    LET K == {k \in 1..Len(ultimas) :
                 /\ \E j \in 1..Len(medias) :
                        medias[j].nome_estacao = ultimas[k].nome_estacao
                 /\ ultimas[k].nome_estacao \in COORDENADAS}
        R[k \in 0..Len(ultimas)] ==
            IF k = 0 THEN <<>>
            ELSE IF k \in K
                 THEN Append(R[k - 1],
                        marcador(ultimas[k],
                                 medias[CHOOSE j \in 1..Len(medias) :
                                    medias[j].nome_estacao = ultimas[k].nome_estacao]))
                 ELSE R[k - 1]
    IN  R[Len(ultimas)]

\* The stations with rows in df, ascending.
Presentes(df) ==
    Linhas(Estacoes, {k \in 1..Len(Estacoes) :
                        \E i \in 1..Len(df) : df[i].nome_estacao = Estacoes[k]})

\* Before the first refresh.
Nenhuma ==
    [feito |-> FALSE, vazio |-> TRUE, excecao |-> FALSE, now |-> 0, est_filt |-> "",
     dedup |-> <<>>, tratado |-> <<>>, df_completo |-> <<>>, options |-> <<>>,
     agora |-> 0, medias |-> <<>>, cards_medias |-> <<>>,
     ultimas |-> <<>>, mapa |-> <<>>,
     tmax |-> SemExtremo, tmin |-> SemExtremo]

\* empty_return: no options, no cards, no rows, the placeholder figures.
\* dedup and tratado keep the frames computed before the return.
empty_return(now, est_filt, dedup, tratado) ==
    [feito |-> TRUE, vazio |-> TRUE, excecao |-> FALSE, now |-> now,
     est_filt |-> est_filt, dedup |-> dedup, tratado |-> tratado,
     df_completo |-> <<>>, options |-> <<>>, agora |-> 0, medias |-> <<>>,
     cards_medias |-> <<>>, ultimas |-> <<>>, mapa |-> <<>>,
     tmax |-> SemExtremo, tmin |-> SemExtremo]

\* The body of update_dashboard on the frame df that ler_dados returned, with
\* the wall clock at now and the dropdown at est_filt: the frame after
\* coercion and drop_duplicates, the resampled frame, the frame of the last
\* 24 hours, the station options, the extremes, the per-station aggregates
\* and their cards.
update_dashboard(df, now, est_filt) ==
    IF df = <<>> THEN empty_return(now, est_filt, <<>>, <<>>)
    ELSE
    LET dedup == drop_duplicates(coagir(df))
        tratado == tratar(dedup)
        recente == Linhas(tratado, {i \in 1..Len(tratado) : tratado[i].tempo >= now - Dia})
    IN  IF recente = <<>> THEN empty_return(now, est_filt, dedup, tratado)
        ELSE
        LET options == Presentes(recente)
            filtrado == filtrar(recente, est_filt)
            completo == df_copy(recente, filtrado)
            grupos == Presentes(completo)
            agora == Max({completo[i].tempo : i \in 1..Len(completo)})
            medias == Tupla([k \in 1..Len(grupos) |->
                                medias_estacao(completo, grupos[k], agora)])
            ultimas == Tupla([k \in 1..Len(grupos) |->
                                ultimas_estacao(completo, grupos[k])])
        IN  [feito |-> TRUE, vazio |-> FALSE, excecao |-> FALSE, now |-> now,
             est_filt |-> est_filt, dedup |-> dedup,
             tratado |-> tratado, df_completo |-> completo, options |-> options,
             agora |-> agora,
             medias |-> medias,
             cards_medias |-> Tupla([k \in 1..Len(medias) |-> card_media(medias[k])]),
             ultimas |-> ultimas,
             mapa |-> df_mapa(ultimas, medias),
             tmax |-> get_ext(filtrado, "max"),
             tmin |-> get_ext(filtrado, "min")]

(***************************************************************************)
(* The tables and clocks considered                                        *)
(***************************************************************************)
MaxLinhas == 3

Instantes == {0, 1, Tick, 7 * Hora}

Medidas ==
    {[chuva_mm |-> 0, temp_ar |-> 20], [chuva_mm |-> 1, temp_ar |-> Malformado],
     [chuva_mm |-> 2, temp_ar |-> 30], [chuva_mm |-> NaN, temp_ar |-> 25]}

Leitura(e, t, c, temp) ==
    [nome_estacao |-> e, tempo |-> t, chuva_mm |-> c, temp_ar |-> temp]

Leituras ==
    {Leitura(Estacoes[k], t, m.chuva_mm, m.temp_ar) :
        k \in 1..Len(Estacoes), t \in Instantes, m \in Medidas}

\* ORDER BY data_hora ASC
Ordenada(df) == \A i \in 1..(Len(df) - 1) : df[i].tempo <= df[i + 1].tempo

\* One station reporting the counter 0, 2, 2, 5, 1, 4 at consecutive buckets.
CenarioA ==
    [i \in 1..6 |->
        Leitura("EST_MINDU", (i - 1) * Tick, <<0, 2, 2, 5, 1, 4>>[i], NaN)]

\* One station whose counter rises in each of the 24h, 12h, 6h and 1h windows.
CenarioJanelas ==
    <<Leitura("EST_MINDU", 0, 1, 20),
      Leitura("EST_MINDU", 5 * Hora, 2, NaN),
      Leitura("EST_MINDU", 10 * Hora, 4, NaN),
      Leitura("EST_MINDU", 16 * Hora, 7, NaN),
      Leitura("EST_MINDU", 20 * Hora, 11, 30)>>

Tabelas ==
    {df \in SeqAte(Leituras, MaxLinhas) : Ordenada(df)}
    \cup {CenarioA, CenarioJanelas}

\* datetime.now() at a refresh
Relogios == {20 * Hora + 1, Dia + 2 * Hora, Dia + 10 * Hora}

\* The value of the station dropdown at a refresh: no choice, or a station.
Filtros == {"", "EST_MINDU (B)"}

(***************************************************************************)
(* What the callbacks hand to Dash                                         *)
(*                                                                         *)
(* An output is the list or the name of the component put there; None and  *)
(* the placeholder figure are "None" and "fig_empty".                      *)
(***************************************************************************)
\* ler_dados: the rows of the query, or an empty frame when reading raised.
ler_dados(estado, tab) == IF estado = "erro" THEN <<>> ELSE tab

\* A placeholder with seven figures.
empty_return_curto ==
    << <<>> >> \o [i \in 1..3 |-> "None"] \o << <<>>, <<>> >>
        \o [i \in 1..7 |-> "fig_empty"]

\* empty_return = [[]] + [None]*3 + [[], []] + [fig_empty]*8
empty_return_saidas ==
    << <<>> >> \o [i \in 1..3 |-> "None"] \o << <<>>, <<>> >>
        \o [i \in 1..8 |-> "fig_empty"]

\* The return statements of update_dashboard.
retornar(s) ==
    IF s.vazio THEN empty_return_saidas
    ELSE <<s.options, "extremos", "cards_medias", "cards_atuais",
           <<"tabela_data">>, <<"tabela_cols">>,
           "fig_t", "fig_u", "fig_c_t", "fig_c_a", "fig_p",
           "fig_v_vel", "fig_v_dir", "fig_mapa">>

\* update_dashboard as Dash calls it: the query, the body, and the except
\* clause that answers any exception of the body with empty_return.  A table
\* without the column data_hora raises KeyError at df['tempo'].
callback_dashboard(estado, tab, now, est_filt) ==
    LET df == ler_dados(estado, tab)
    IN  IF df # <<>> /\ estado = "sem_data_hora"
        THEN [empty_return(now, est_filt, <<>>, <<>>) EXCEPT !.excecao = TRUE]
        ELSE update_dashboard(df, now, est_filt)

(***************************************************************************)
(* The national refresh (cemaden.py update_cemaden)                        *)
(*                                                                         *)
(* A row of the table is [nome_estacao, data_hora, chuva_24h]: the name is *)
(* a sequence of symbols, chuva_24h (tenths of mm) stands for the five     *)
(* rain columns, which the code treats alike.                              *)
(***************************************************************************)
\* The code point that orders a symbol in a Python str comparison.
Codigo(c) ==
    CASE c = " " -> 32 [] c = "(" -> 40 [] c = ")" -> 41 [] c = "CEMADEN -" -> 67
      [] c = "[" -> 91 [] c = "]" -> 93 [] c = "x" -> 120

\* a <= b for two str.
RECURSIVE MenorOuIgual(_, _)
MenorOuIgual(a, b) ==
    IF a = <<>> THEN TRUE
    ELSE IF b = <<>> THEN FALSE
    ELSE IF a[1] = b[1] THEN MenorOuIgual(Tail(a), Tail(b))
    ELSE Codigo(a[1]) < Codigo(b[1])

\* sorted(S) for a set of str.
sorted(S) ==
    LET pos(x) == Cardinality({y \in S : MenorOuIgual(y, x)})
    IN  Tupla([k \in 1..Cardinality(S) |-> CHOOSE x \in S : pos(x) = k])

\* The keys of COORDENADAS_CEMADEN among the names considered: the station
\* "x" is listed, the station "x x" is not.
COORDENADAS_CEMADEN == {<<"x">>}

\* ultimas.dropna(subset=['lat', 'lon']): the rows whose station
\* COORDENADAS_CEMADEN knows.
dropna_lat_lon(ultimas) ==
    Linhas(ultimas, {k \in 1..Len(ultimas) : ultimas[k].no_mapa})

\* Series.fillna(0) on one value.
fillna0(v) == IF isna(v) THEN 0 ELSE v

NenhumaCemaden ==
    [feito |-> FALSE, vazio |-> TRUE, excecao |-> FALSE, now |-> 0,
     est_filt |-> <<>>, limpo |-> <<>>, options |-> <<>>, ultimas |-> <<>>,
     mapa |-> <<>>]

empty_return_cemaden(now, est_filt) ==
    [feito |-> TRUE, vazio |-> TRUE, excecao |-> FALSE, now |-> now,
     est_filt |-> est_filt, limpo |-> <<>>, options |-> <<>>, ultimas |-> <<>>,
     mapa |-> <<>>]

\* The row of a station with its 24h totals added up over its readings.
ultima_soma(df, nome) ==
    LET I == {i \in 1..Len(df) : df[i].nome_limpo = nome}
        u == df[Max(I)]
        v == Soma(Tupla([i \in 1..Len(df) |-> IF i \in I THEN df[i].chuva_24h ELSE 0]))
    IN  [nome_limpo   |-> nome,
         data_hora    |-> u.data_hora,
         chuva_24h    |-> v,
         nivel_alerta |-> get_nivel_alerta(v),
         status       |-> get_categoria_status_cemaden(v),
         cor          |-> get_color_code_cemaden(v),
         no_mapa      |-> nome \in COORDENADAS_CEMADEN]

\* One row of ultimas = df.groupby('nome_limpo').last(), with what the
\* ranking, the map, the cards and the bars derive from its 24h total.
ultima(df, nome) ==
    LET u == df[Max({i \in 1..Len(df) : df[i].nome_limpo = nome})]
    IN  [nome_limpo   |-> nome,
         data_hora    |-> u.data_hora,
         chuva_24h    |-> u.chuva_24h,
         nivel_alerta |-> get_nivel_alerta(u.chuva_24h),
         status       |-> get_categoria_status_cemaden(u.chuva_24h),
         cor          |-> get_color_code_cemaden(u.chuva_24h),
         no_mapa      |-> nome \in COORDENADAS_CEMADEN]

\* The body of update_cemaden on the frame df that ler_dados returned, with
\* the wall clock at now and the dropdown at est_filt (<<>> for no choice).
update_cemaden(df, now, est_filt) ==
    IF df = <<>> THEN empty_return_cemaden(now, est_filt)
    ELSE
    LET recente == Linhas(df, {i \in 1..Len(df) : df[i].data_hora >= now - Dia})
    IN  IF recente = <<>> THEN empty_return_cemaden(now, est_filt)
        ELSE
        LET limpo == Tupla([i \in 1..Len(recente) |->
                        [nome_estacao |-> recente[i].nome_estacao,
                         nome_limpo   |-> limpar_nome_estacao(recente[i].nome_estacao),
                         data_hora    |-> recente[i].data_hora,
                         chuva_24h    |-> fillna0(to_numeric(recente[i].chuva_24h))]])
            escolha == Linhas(limpo, {i \in 1..Len(limpo) : limpo[i].nome_limpo = est_filt})
            filtrado == IF est_filt = <<>> \/ escolha = <<>> THEN limpo ELSE escolha
            nomes == sorted({filtrado[i].nome_limpo : i \in 1..Len(filtrado)})
            ultimas == Tupla([k \in 1..Len(nomes) |-> ultima(filtrado, nomes[k])])
        IN  [feito |-> TRUE, vazio |-> FALSE, excecao |-> FALSE, now |-> now,
             est_filt |-> est_filt,
             limpo    |-> limpo,
             options  |-> sorted({limpo[i].nome_limpo : i \in 1..Len(limpo)}),
             ultimas  |-> ultimas,
             mapa     |-> dropna_lat_lon(ultimas)]

\* empty_return = [[], html.Div("Sem dados."), fig_empty, [], fig_empty]
empty_return_cemaden_saidas == << <<>>, "Sem dados.", "fig_empty", <<>>, "fig_empty">>

\* The return statements of update_cemaden.
retornar_cemaden(s) ==
    IF s.vazio THEN empty_return_cemaden_saidas
    ELSE <<s.options, "tabela_ranking", "fig_mapa",
           Tupla([k \in 1..Len(s.ultimas) |-> s.ultimas[k].nome_limpo]), "fig_bar">>

\* update_cemaden as Dash calls it, with its except clause.  A table without
\* the column data_hora raises KeyError at df['data_hora'].
callback_cemaden(estado, tab, now, est_filt) ==
    LET df == ler_dados(estado, tab)
    IN  IF df # <<>> /\ estado = "sem_data_hora"
        THEN [empty_return_cemaden(now, est_filt) EXCEPT !.excecao = TRUE]
        ELSE update_cemaden(df, now, est_filt)

MaxLinhasPaineis == 2

NomesCemaden ==
    {<<"x">>, Prefixo \o <<"x">>, <<"x", " ", "(", "x", ")">>, <<"x", " ", "x">>}

LeiturasCemaden ==
    {[nome_estacao |-> n, data_hora |-> t, chuva_24h |-> v] :
        n \in NomesCemaden, t \in {0, 7 * Hora}, v \in {350, 800, NaN, Malformado}}

TabelasCemaden ==
    {df \in SeqAte(LeiturasCemaden, MaxLinhasPaineis) :
        \A i \in 1..(Len(df) - 1) : df[i].data_hora <= df[i + 1].data_hora}

FiltrosCemaden == {<<>>, <<"x">>}

\* The municipal tables of at most MaxLinhasPaineis rows.
TabelasCurtas ==
    {df \in SeqAte(Leituras, MaxLinhasPaineis) : Ordenada(df)}

EstadosLeitura == {"ok", "erro", "sem_data_hora"}

(***************************************************************************)
(* The report page (relatorios.py get_data)                                *)
(*                                                                         *)
(* The store is the table of readings; a day holds Dia instants.  A row of *)
(* the daily result is [nome_estacao, dia, chuva_mm, temp_ar]: temp_ar     *)
(* stands for the columns aggregated by mean.                              *)
(***************************************************************************)
\* The calendar day of an instant.
DiaDe(t) == t \div Dia

\* SELECT * ... WHERE nome_estacao IN (stations) AND data_hora BETWEEN
\* 'start 00:00:00' AND 'end 23:59:59' ORDER BY data_hora ASC
consulta(tab, stations, start_date, end_date) ==
    Linhas(tab, {i \in 1..Len(tab) :
                   /\ tab[i].nome_estacao \in stations
                   /\ start_date * Dia <= tab[i].tempo
                   /\ tab[i].tempo <= end_date * Dia + Dia - 1})

\* resample('D').agg(agg_dict) for the rows g of one station: one row per
\* day from the day of its first row to the day of its last; the sum of an
\* empty day is 0, its mean is NaN.
diario_estacao(e, g) ==
    LET d0 == DiaDe(g[1].tempo)
        d1 == DiaDe(g[Len(g)].tempo)
    IN  Tupla([k \in 1..(d1 - d0 + 1) |->
            LET C == {i \in 1..Len(g) : DiaDe(g[i].tempo) = d0 + k - 1
                                         /\ ~isna(g[i].chuva_mm)}
                T == {i \in 1..Len(g) : DiaDe(g[i].tempo) = d0 + k - 1
                                         /\ ~isna(g[i].temp_ar)}
            IN  [nome_estacao |-> e,
                 dia          |-> d0 + k - 1,
                 chuva_mm     |-> Soma(Tupla([i \in 1..Len(g) |->
                                        IF i \in C THEN g[i].chuva_mm ELSE 0])),
                 temp_ar      |-> IF T = {} THEN QNaN
                                  ELSE Q(Soma(Tupla([i \in 1..Len(g) |->
                                            IF i \in T THEN g[i].temp_ar ELSE 0])),
                                         Cardinality(T))]])

\* df.groupby('nome_estacao').resample('D').agg(agg_dict).reset_index()
diario(df) ==
    LET R[k \in 0..Len(Estacoes)] ==
            IF k = 0 THEN <<>>
            ELSE LET g == DaEstacao(df, Estacoes[k])
                 IN  IF g = <<>> THEN R[k - 1]
                     ELSE R[k - 1] \o diario_estacao(Estacoes[k], g)
    IN  R[Len(Estacoes)]

\* df_grouped.dropna(subset=['chuva_mm'], how='all')
dropna_chuva(df) == Linhas(df, {i \in 1..Len(df) : ~isna(df[i].chuva_mm)})

\* Before the first report.
SemRelatorio ==
    [feito |-> FALSE, stations |-> {}, start_date |-> 0, end_date |-> 0,
     freq |-> "D", consultou |-> FALSE, linhas |-> <<>>]

\* get_data(source, stations, start_date, end_date, freq) over the table tab
\* of the source; consultou tells whether ler_dados was called.
get_data(estado, tab, stations, start_date, end_date, freq) ==
    LET pedido == [feito |-> TRUE, stations |-> stations,
                   start_date |-> start_date, end_date |-> end_date,
                   freq |-> freq, consultou |-> FALSE, linhas |-> <<>>]
    IN  IF stations = {} THEN pedido
        ELSE LET df == ler_dados(estado, consulta(tab, stations, start_date, end_date))
             IN  IF df = <<>> THEN [pedido EXCEPT !.consultou = TRUE]
                 ELSE IF freq = "D"
                      THEN [pedido EXCEPT !.consultou = TRUE,
                                          !.linhas = dropna_chuva(diario(coagir(df)))]
                      ELSE [pedido EXCEPT !.consultou = TRUE, !.linhas = coagir(df)]

MaxDia == 2

\* The instants of the readings of the report's store: two in day 0, one in
\* day 1 and one in the last day.
InstantesRelatorio == {0, 1, Dia, MaxDia * Dia + 3}

LeiturasRelatorio ==
    {Leitura(Estacoes[k], t, m.chuva_mm, m.temp_ar) :
        k \in 1..Len(Estacoes), t \in InstantesRelatorio,
        m \in {[chuva_mm |-> 1, temp_ar |-> 20], [chuva_mm |-> 2, temp_ar |-> Malformado],
               [chuva_mm |-> NaN, temp_ar |-> 25]}}

TabelasRelatorio ==
    {df \in SeqAte(LeiturasRelatorio, MaxLinhas) : Ordenada(df)}

\* The periods asked for: every day, and the days after the first.
Periodos == {<<0, MaxDia>>, <<1, MaxDia>>}

(***************************************************************************)
(* Actions and specifications                                              *)
(***************************************************************************)
InitAlerta ==
    /\ valor \in Valores
    /\ alerta = Pendente
    /\ nome_sujo = <<>> /\ nome_limpo = <<>> /\ nome_relimpo = <<>>
    /\ fase = "parado"
    /\ tabela = <<>> /\ saida = Nenhuma
    /\ sens_t = NaN /\ sens_rh = NaN /\ sens_tipo = "float"
    /\ sensacao = SemSensacao
    /\ leitura = "ok" /\ retorno = <<>>
    /\ tabela_cemaden = <<>> /\ saida_cemaden = NenhumaCemaden
    /\ retorno_cemaden = <<>>
    /\ relatorio = SemRelatorio

Classificar ==
    /\ alerta = Pendente
    /\ alerta' = Classificacao(valor)
    /\ UNCHANGED <<valor, varsNome, varsPainel, varsSensacao,
                 varsCemaden,
                 varsRelatorio>>

NovoValor ==
    /\ alerta # Pendente
    /\ \E v \in Valores : valor' = v
    /\ alerta' = Pendente
    /\ UNCHANGED <<varsNome, varsPainel, varsSensacao,
                 varsCemaden,
                 varsRelatorio>>

NextAlerta == Classificar \/ NovoValor

SpecAlerta == InitAlerta /\ [][NextAlerta]_vars

InitNome ==
    /\ nome_sujo \in NomesBrutos
    /\ nome_limpo = <<>> /\ nome_relimpo = <<>>
    /\ fase = "bruto"
    /\ valor = NaN /\ alerta = Pendente
    /\ tabela = <<>> /\ saida = Nenhuma
    /\ sens_t = NaN /\ sens_rh = NaN /\ sens_tipo = "float"
    /\ sensacao = SemSensacao
    /\ leitura = "ok" /\ retorno = <<>>
    /\ tabela_cemaden = <<>> /\ saida_cemaden = NenhumaCemaden
    /\ retorno_cemaden = <<>>
    /\ relatorio = SemRelatorio

\* df['nome_limpo'] = df['nome_estacao'].apply(limpar_nome_estacao)
Limpar ==
    /\ fase = "bruto"
    /\ nome_limpo' = limpar_nome_estacao(nome_sujo)
    /\ fase' = "limpo"
    /\ UNCHANGED <<nome_sujo, nome_relimpo, varsAlerta, varsPainel, varsSensacao,
                 varsCemaden,
                 varsRelatorio>>

\* The cleaned name handed to limpar_nome_estacao again.
Relimpar ==
    /\ fase = "limpo"
    /\ nome_relimpo' = limpar_nome_estacao(nome_limpo)
    /\ fase' = "relimpo"
    /\ UNCHANGED <<nome_sujo, nome_limpo, varsAlerta, varsPainel, varsSensacao,
                 varsCemaden,
                 varsRelatorio>>

NextNome == Limpar \/ Relimpar

SpecNome == InitNome /\ [][NextNome]_vars

Init ==
    /\ tabela \in Tabelas
    /\ saida = Nenhuma
    /\ valor = NaN /\ alerta = Pendente
    /\ nome_sujo = <<>> /\ nome_limpo = <<>> /\ nome_relimpo = <<>>
    /\ fase = "parado"
    /\ sens_t = NaN /\ sens_rh = NaN /\ sens_tipo = "float"
    /\ sensacao = SemSensacao
    /\ leitura = "ok" /\ retorno = <<>>
    /\ tabela_cemaden = <<>> /\ saida_cemaden = NenhumaCemaden
    /\ retorno_cemaden = <<>>
    /\ relatorio = SemRelatorio

\* A refresh that keeps the aggregates of the refresh before it.
Atualizar_com_cache ==
    /\ \E now \in Relogios, est_filt \in Filtros :
          saida' = LET r == callback_dashboard(leitura, tabela, now, est_filt)
                   IN  IF saida.feito /\ ~saida.vazio /\ ~r.vazio
                       THEN [r EXCEPT !.medias = saida.medias]
                       ELSE r
    /\ retorno' = retornar(saida')
    /\ UNCHANGED <<tabela, leitura, varsAlerta, varsNome, varsSensacao, varsCemaden,
                 varsRelatorio>>

\* One firing of the refresh callback: ler_dados runs the query, the wall
\* clock and the dropdown are read, and the outputs replace the previous ones.
Atualizar ==
    /\ \E now \in Relogios, est_filt \in Filtros :
          saida' = callback_dashboard(leitura, tabela, now, est_filt)
    /\ retorno' = retornar(saida')
    /\ UNCHANGED <<tabela, leitura, varsAlerta, varsNome, varsSensacao, varsCemaden,
                 varsRelatorio>>

\* One firing of the refresh callback of the national page.
AtualizarCemaden ==
    /\ \E now \in Relogios, est_filt \in FiltrosCemaden :
          saida_cemaden' = callback_cemaden(leitura, tabela_cemaden, now, est_filt)
    /\ retorno_cemaden' = retornar_cemaden(saida_cemaden')
    /\ UNCHANGED <<tabela_cemaden, varsPainel, varsAlerta, varsNome, varsSensacao,
                 varsRelatorio>>

\* Both pages over one store: a municipal table or a national one, and a
\* store that answers, fails, or answers without the column data_hora.
InitPaineis ==
    /\ leitura \in EstadosLeitura
    /\ \/ tabela \in TabelasCurtas /\ tabela_cemaden = <<>>
       \/ tabela = <<>> /\ tabela_cemaden \in TabelasCemaden
    /\ saida = Nenhuma /\ retorno = <<>>
    /\ saida_cemaden = NenhumaCemaden /\ retorno_cemaden = <<>>
    /\ relatorio = SemRelatorio
    /\ valor = NaN /\ alerta = Pendente
    /\ nome_sujo = <<>> /\ nome_limpo = <<>> /\ nome_relimpo = <<>>
    /\ fase = "parado"
    /\ sens_t = NaN /\ sens_rh = NaN /\ sens_tipo = "float"
    /\ sensacao = SemSensacao

NextPaineis == Atualizar \/ AtualizarCemaden

SpecPaineis == InitPaineis /\ [][NextPaineis]_vars

Next == Atualizar

InitRelatorio ==
    /\ tabela \in TabelasRelatorio
    /\ leitura \in {"ok", "erro"}
    /\ relatorio = SemRelatorio
    /\ saida = Nenhuma /\ retorno = <<>>
    /\ tabela_cemaden = <<>>
    /\ saida_cemaden = NenhumaCemaden /\ retorno_cemaden = <<>>
    /\ valor = NaN /\ alerta = Pendente
    /\ nome_sujo = <<>> /\ nome_limpo = <<>> /\ nome_relimpo = <<>>
    /\ fase = "parado"
    /\ sens_t = NaN /\ sens_rh = NaN /\ sens_tipo = "float"
    /\ sensacao = SemSensacao

\* One report asked for: the stations, the period and the frequency chosen.
GerarRelatorio ==
    /\ \E stations \in SUBSET NomesEstacoes, p \in Periodos, freq \in {"D", "H"} :
          relatorio' = get_data(leitura, tabela, stations, p[1], p[2], freq)
    /\ UNCHANGED <<varsPainel, varsAlerta, varsNome, varsSensacao, varsCemaden>>

NextRelatorio == GerarRelatorio

SpecRelatorio == InitRelatorio /\ [][NextRelatorio]_vars

InitSensacao ==
    /\ sens_t \in Temperaturas /\ sens_rh \in Umidades /\ sens_tipo \in Tipos
    /\ sensacao = SemSensacao
    /\ valor = NaN /\ alerta = Pendente
    /\ nome_sujo = <<>> /\ nome_limpo = <<>> /\ nome_relimpo = <<>>
    /\ fase = "parado"
    /\ tabela = <<>> /\ saida = Nenhuma
    /\ leitura = "ok" /\ retorno = <<>>
    /\ tabela_cemaden = <<>> /\ saida_cemaden = NenhumaCemaden
    /\ retorno_cemaden = <<>>
    /\ relatorio = SemRelatorio

\* df.apply(lambda r: calcular_sensacao(r.get('temp_ar'), r.get('umidade')))
\* on one row.
Sentir ==
    /\ ~sensacao.feito
    /\ sensacao' = LET r == calcular_sensacao(sens_t, sens_rh, sens_tipo)
                    IN  [excecao |-> r.excecao, valor |-> r.valor, feito |-> TRUE]
    /\ UNCHANGED <<sens_t, sens_rh, sens_tipo, varsAlerta, varsNome, varsPainel,
                 varsCemaden,
                 varsRelatorio>>

\* The next row.
NovaMedida ==
    /\ sensacao.feito
    /\ \E t \in Temperaturas, rh \in Umidades :
          sens_t' = t /\ sens_rh' = rh
    /\ sensacao' = SemSensacao
    /\ UNCHANGED <<sens_tipo, varsAlerta, varsNome, varsPainel,
                 varsCemaden,
                 varsRelatorio>>

NextSensacao == Sentir \/ NovaMedida

SpecSensacao == InitSensacao /\ [][NextSensacao]_vars

Spec == Init /\ [][Next]_vars

(***************************************************************************)
(* Claims about the alert classifiers (checked under SpecAlerta)           *)
(***************************************************************************)
Niveis == <<"NORMAL", "OBSERVAÇÃO", "ATENÇÃO", "CRÍTICO">>

\* The place of a level, a national status, a municipal category or a colour
\* in the order NORMAL < OBSERVAÇÃO < ATENÇÃO < CRÍTICO (0 when it is none).
Ordem(x) ==
    CASE x \in {"NORMAL", "NORMAL (<10mm)", "#2ecc71"} -> 1
      [] x \in {"OBSERVAÇÃO", "OBSERVAÇÃO (10-30mm)", "#f1c40f"} -> 2
      [] x \in {"ATENÇÃO", "ATENÇÃO (30-70mm)", "#e67e22"} -> 3
      [] x \in {"CRÍTICO", "CRÍTICO (>70mm)", "#e74c3c"} -> 4
      [] OTHER -> 0

\* Every classifier of the record put the value at place k.
TodosEm(a, k) ==
    /\ Ordem(a.nivel) = k /\ Ordem(a.status) = k /\ Ordem(a.cor) = k
    /\ Ordem(a.categoria) = k /\ Ordem(a.cor_mun) = k

\* Lower-inclusive breakpoints 10, 30 and 70 mm.
OrdemInclusiva(v) ==
    IF v < 100 THEN 1 ELSE IF v < 300 THEN 2 ELSE IF v < 700 THEN 3 ELSE 4

\* Breakpoints 10 and 30 mm lower-inclusive, 70 mm exclusive.
OrdemExclusiva70(v) ==
    IF v < 100 THEN 1 ELSE IF v < 300 THEN 2 ELSE IF v <= 700 THEN 3 ELSE 4

C8_TotalMonotone ==
    (alerta # Pendente /\ ~isna(valor) /\ valor >= 0) =>
        /\ alerta.nivel \in {Niveis[i] : i \in 1..4}
        /\ Ordem(alerta.status) # 0 /\ Ordem(alerta.categoria) # 0
        /\ Ordem(alerta.cor) # 0 /\ Ordem(alerta.cor_mun) # 0
        /\ \A x1 \in 0..(valor - 1) :
              /\ Ordem(get_nivel_alerta(x1)) <= Ordem(alerta.nivel)
              /\ Ordem(get_categoria_status_cemaden(x1)) <= Ordem(alerta.status)
              /\ Ordem(get_color_code_cemaden(x1)) <= Ordem(alerta.cor)
              /\ Ordem(get_categoria_status(x1)) <= Ordem(alerta.categoria)
              /\ Ordem(get_color_code(x1)) <= Ordem(alerta.cor_mun)

C8_Witness ==
    /\ valor = 300
    /\ alerta # Pendente
    /\ alerta.nivel = "ATENÇÃO"
    /\ get_nivel_alerta(299) = "OBSERVAÇÃO"

\* C16: for a NaN (missing) 24h total every classifier returns a 'no data'
\* answer that is not the level, status or colour of NORMAL.
C16_SemDadosParaNaN ==
    (alerta # Pendente /\ isna(valor)) =>
        /\ Ordem(alerta.nivel) # 1 /\ Ordem(alerta.status) # 1
        /\ Ordem(alerta.cor) # 1
        /\ Ordem(alerta.categoria) # 1 /\ Ordem(alerta.cor_mun) # 1

\* C28: in the national view the three classifiers agree on every non-NaN
\* value: get_categoria_status gives the level get_nivel_alerta gives, and
\* get_color_code gives the colour LIMIARES holds for that level.
C28_ClassificadoresConcordam ==
    (alerta # Pendente /\ ~isna(valor)) =>
        /\ alerta.status = alerta.nivel
        /\ alerta.cor = LIMIARES[alerta.nivel].cor

\* A total on a breakpoint has been classified, and a total just above it.
C28_Witness ==
    /\ alerta # Pendente
    /\ valor \in {700, 701}
    /\ alerta.status = alerta.nivel
    /\ alerta.cor \in {"#e67e22", "#e74c3c"}

\* The levels whose configured range [min, max] holds v.
NiveisCom(v) ==
    {n \in DOMAIN LIMIARES : LIMIARES[n].min <= v /\ v <= LIMIARES[n].max}

\* C29: for every v >= 0 the level get_nivel_alerta returns is the one level
\* of LIMIARES whose range [min, max] holds v: the four ranges cover every
\* v >= 0 and no two of them overlap.
C29_FaixasParticionam ==
    (alerta # Pendente /\ ~isna(valor) /\ valor >= 0) =>
        NiveisCom(valor) = {alerta.nivel}

(***************************************************************************)
(* Claims about name cleaning (checked under SpecNome)                     *)
(***************************************************************************)
SemFecha(s) == \A i \in 1..Len(s) : ~EhFecha(s[i])

SemColchete(s) == \A i \in 1..Len(s) : ~EhAbre(s[i]) /\ ~EhFecha(s[i])

SemCemaden(s) == \A i \in 1..Len(s) : s[i] # "CEMADEN -"

\* The first index >= i of s that holds an opening bracket (0 if none).
RECURSIVE PrimeiroAbre(_, _)
PrimeiroAbre(s, i) ==
    IF i > Len(s) THEN 0
    ELSE IF EhAbre(s[i]) THEN i ELSE PrimeiroAbre(s, i + 1)

\* s read as "CEMADEN - " + base + " (" + anotacao + ")" (or with square
\* brackets) with a base free of brackets: the base ends before the first
\* opening bracket, so there is at most one such reading.
LeituraDoNome(s) ==
    LET j == PrimeiroAbre(s, 1)
        n == Len(s)
    IN  IF /\ n >= 5 /\ j >= 4
           /\ SubSeq(s, 1, 2) = Prefixo
           /\ s[j - 1] = " "
           /\ s[n] = (IF s[j] = "(" THEN ")" ELSE "]")
           /\ SemColchete(SubSeq(s, 3, j - 2))
        THEN [ok |-> TRUE, base |-> SubSeq(s, 3, j - 2),
              anotacao |-> SubSeq(s, j + 1, n - 1)]
        ELSE [ok |-> FALSE, base |-> <<>>, anotacao |-> <<>>]

\* C6: cleaning a cleaned name changes nothing (idempotence), for every name.
C6_Idempotent ==
    fase = "relimpo" => nome_relimpo = nome_limpo

\* C7 as stated: for every raw name "CEMADEN - " + base + " (" + annotation + ")"
\* (or with square brackets) whose base holds no bracket and no prefix,
\* cleaning returns base (without the white space around it).
C7_Original ==
    LET l == LeituraDoNome(nome_sujo)
    IN  (fase # "bruto" /\ l.ok /\ SemCemaden(l.base))
        => nome_limpo = strip(l.base)

\* C7 amended: the same, for annotations that hold no closing bracket.
C7_Formatado ==
    LET l == LeituraDoNome(nome_sujo)
    IN  (fase # "bruto" /\ l.ok /\ SemCemaden(l.base) /\ SemFecha(l.anotacao))
        => nome_limpo = strip(l.base)

\* "CEMADEN - x x (x x)" has been cleaned to "x x".
C7_Witness ==
    /\ fase = "limpo"
    /\ LeituraDoNome(nome_sujo).ok
    /\ nome_sujo = Formatado(<<"x", " ", "x">>, "(", <<"x", "x">>, ")")
    /\ nome_limpo = <<"x", " ", "x">>

\* C19: a cleaned name neither starts nor ends with white space and holds no
\* two white-space characters in a row.
C19_EspacosColapsados ==
    fase # "bruto" =>
        /\ nome_limpo # <<>> =>
              ~EhEspaco(nome_limpo[1]) /\ ~EhEspaco(nome_limpo[Len(nome_limpo)])
        /\ \A i \in 1..(Len(nome_limpo) - 1) :
              ~(EhEspaco(nome_limpo[i]) /\ EhEspaco(nome_limpo[i + 1]))

(***************************************************************************)
(* Claims about the refresh pipeline (checked under Spec)                  *)
(***************************************************************************)
\* The resampled rows of station e, and its readings after drop_duplicates
\* in ascending order of time.
TratadoDe(e) == DaEstacao(saida.tratado, e)

LidasDe(e) ==
    LET g == DaEstacao(saida.dedup, e)
    IN  IF g = <<>> THEN <<>> ELSE sort_values(g)

Deltas(g) == Tupla([i \in 1..Len(g) |-> g[i].chuva_delta])

\* The readings r hold a rain value each and fall on consecutive buckets.
Regular(r) ==
    /\ \A i \in 1..Len(r) : ~isna(r[i].chuva_mm)
    /\ \A i \in 1..(Len(r) - 1) : Balde(r[i + 1].tempo) = Balde(r[i].tempo) + 1

NaoDecrescente(c) == \A i \in 1..(Len(c) - 1) : c[i] <= c[i + 1]

\* C2: every reconstructed rainfall delta of every station is >= 0, and so is
\* the chuva_mm column it replaces.
C2_NonNegative ==
    saida.feito =>
        \A i \in 1..Len(saida.tratado) :
            /\ saida.tratado[i].chuva_delta >= 0
            /\ saida.tratado[i].chuva_mm = saida.tratado[i].chuva_delta

\* A refresh has met a counter reset: the cumulative value fell and the delta
\* of that tick is 0.
C2_Witness ==
    /\ saida.feito
    /\ \E e \in NomesEstacoes : \E g \in {TratadoDe(e)} :
          \E i \in 2..Len(g) : g[i].acum < g[i - 1].acum /\ g[i].chuva_delta = 0

\* C3: the deltas are as many as the cumulative values, the first is 0 and
\* every later one is max(0, cumulative[i] - cumulative[i-1]); for readings
\* on consecutive ticks the cumulative values are the readings themselves,
\* and the counter 0, 2, 2, 5, 1, 4 gives the deltas 0, 2, 0, 3, 0, 3.
C3_Deltas ==
    saida.feito =>
        /\ \A e \in NomesEstacoes : \A g \in {TratadoDe(e)} :
              /\ \A i \in 1..Len(g) :
                    g[i].chuva_delta =
                        IF i = 1 THEN 0 ELSE Max({0, g[i].acum - g[i - 1].acum})
              /\ \A r \in {LidasDe(e)} :
                    Regular(r) =>
                        /\ Len(g) = Len(r)
                        /\ \A i \in 1..Len(r) : g[i].acum = r[i].chuva_mm
        /\ tabela = CenarioA =>
              Deltas(TratadoDe("EST_MINDU")) = <<0, 2, 0, 3, 0, 3>>

\* The refresh has run on the counter 0, 2, 2, 5, 1, 4.
C3_Witness ==
    /\ saida.feito
    /\ tabela = CenarioA
    /\ Len(TratadoDe("EST_MINDU")) = 6

C5_WindowOrder ==
    (saida.feito /\ ~saida.vazio) =>
        /\ Len(saida.medias) = Len(saida.options)
        /\ \A k \in 1..Len(saida.medias) :
              /\ saida.medias[k].chuva_mm_sum >= saida.medias[k].ch_12h_sum
              /\ saida.medias[k].ch_12h_sum >= saida.medias[k].ch_6h_sum
              /\ saida.medias[k].ch_6h_sum >= saida.medias[k].ch_1h_sum
              /\ saida.medias[k].ch_1h_sum >= 0

\* A station with rain in each ring of the windows: the four sums differ.
C5_Witness ==
    /\ saida.feito /\ ~saida.vazio
    /\ \E k \in 1..Len(saida.medias) :
          /\ saida.medias[k].chuva_mm_sum > saida.medias[k].ch_12h_sum
          /\ saida.medias[k].ch_12h_sum > saida.medias[k].ch_6h_sum
          /\ saida.medias[k].ch_6h_sum > saida.medias[k].ch_1h_sum
          /\ saida.medias[k].ch_1h_sum > 0

MesmaChave(a, b) == a.nome_estacao = b.nome_estacao /\ a.tempo = b.tempo

\* The rows of df that a later row of the same station and instant follows.
Descartadas(df) ==
    {i \in 1..Len(df) : \E j \in (i + 1)..Len(df) : MesmaChave(df[i], df[j])}

\* df with the measured values of row i replaced by those of m.
Trocada(df, i, m) ==
    [df EXCEPT ![i] = Leitura(df[i].nome_estacao, df[i].tempo, m.chuva_mm, m.temp_ar)]

\* C9: of the rows of one station and instant exactly one is kept, the last
\* in the order of the input, and the refresh gives the same resampled
\* values, deltas and aggregates whatever values the other rows hold, and
\* the same as without them.
C9_KeepLast ==
    saida.feito =>
        /\ \A i \in 1..Len(tabela) :
              LET U == Max({j \in 1..Len(tabela) : MesmaChave(tabela[j], tabela[i])})
                  D == {j \in 1..Len(saida.dedup) : MesmaChave(saida.dedup[j], tabela[i])}
              IN  Cardinality(D) = 1 /\ \A j \in D : saida.dedup[j] = coagir(tabela)[U]
        /\ \A j \in 1..Len(saida.dedup) :
              \E i \in 1..Len(tabela) : saida.dedup[j] = coagir(tabela)[i]
        /\ Descartadas(tabela) # {} =>
              /\ update_dashboard(
                    Linhas(tabela, (1..Len(tabela)) \ Descartadas(tabela)),
                    saida.now, saida.est_filt) = saida
              /\ \A i \in Descartadas(tabela) : \A m \in Medidas :
                    update_dashboard(Trocada(tabela, i, m), saida.now,
                                     saida.est_filt) = saida

\* A refresh that showed data from a table with two rows of one station and
\* instant whose rain and temperature differ.
C9_Witness ==
    /\ saida.feito /\ ~saida.vazio
    /\ \E i \in Descartadas(tabela) : \E j \in (i + 1)..Len(tabela) :
          /\ MesmaChave(tabela[i], tabela[j])
          /\ tabela[i].chuva_mm # tabela[j].chuva_mm
          /\ tabela[i].temp_ar # tabela[j].temp_ar
          /\ ~isna(tabela[i].chuva_mm) /\ ~isna(tabela[i].temp_ar)

\* C10: the resampled rows of a station stand at the ticks from the tick of
\* its first reading to the tick of its last, one row per tick, in order.
C10_GridComplete ==
    saida.feito =>
        \A e \in NomesEstacoes : \A g \in {TratadoDe(e)} :
            LET I == {i \in 1..Len(tabela) : tabela[i].nome_estacao = e}
            IN  IF I = {} THEN g = <<>>
                ELSE LET b0 == Balde(Min({tabela[i].tempo : i \in I}))
                         b1 == Balde(Max({tabela[i].tempo : i \in I}))
                     IN  /\ Len(g) = b1 - b0 + 1
                         /\ \A k \in 1..Len(g) : g[k].tempo = (b0 + k - 1) * Tick

\* A station with two readings in one bucket and a stretch of ticks without
\* any reading.
C10_Witness ==
    /\ saida.feito
    /\ \E e \in NomesEstacoes : \E g \in {TratadoDe(e)} : \E r \in {LidasDe(e)} :
          /\ Len(g) > Len(r)
          /\ \E i \in 1..(Len(r) - 1) : Balde(r[i].tempo) = Balde(r[i + 1].tempo)

\* C13: for a fixed table the refresh gives the same window aggregates at
\* every wall-clock time, the windows being anchored at the greatest
\* timestamp of the table.
C13_AncoraNosDados ==
    saida.feito =>
        \A now \in Relogios : \A r \in {update_dashboard(tabela, now, saida.est_filt)} :
            /\ r.vazio = saida.vazio
            /\ r.medias = saida.medias

\* The chuva_mm of the rows of g stamped in the half-open interval
\* (agora - h hours, agora], added up.
SomaSemiAberta(g, agora, h) ==
    Soma(Tupla([i \in 1..Len(g) |->
        IF g[i].tempo > agora - h * Hora /\ g[i].tempo <= agora
        THEN g[i].chuva_mm ELSE 0]))

\* C14: each window sum of a station adds the deltas stamped in
\* (agora - window, agora]: one stamped at agora is in, one stamped at
\* agora - window is out.
C14_JanelaSemiAberta ==
    (saida.feito /\ ~saida.vazio) =>
        \A k \in 1..Len(saida.medias) :
            \A g \in {DaEstacao(saida.df_completo, saida.medias[k].nome_estacao)} :
                /\ saida.medias[k].ch_1h_sum = SomaSemiAberta(g, saida.agora, 1)
                /\ saida.medias[k].ch_6h_sum = SomaSemiAberta(g, saida.agora, 6)
                /\ saida.medias[k].ch_12h_sum = SomaSemiAberta(g, saida.agora, 12)
                /\ saida.medias[k].chuva_mm_sum = SomaSemiAberta(g, saida.agora, 24)

\* C15: a station without a row in a window has the rain sum 0 for it, and a
\* station without any temperature value has on its card, for the lowest and
\* the highest temperature, a marker that is not what the value 0 prints as.
C15_SemDadosDistintoDeZero ==
    (saida.feito /\ ~saida.vazio) =>
        \A k \in 1..Len(saida.medias) :
            \A g \in {DaEstacao(saida.df_completo, saida.medias[k].nome_estacao)} :
                /\ (\A i \in 1..Len(g) : g[i].tempo < saida.agora - Hora)
                      => saida.cards_medias[k].c_1h = 0
                /\ (\A i \in 1..Len(g) : Qisna(g[i].temp_ar)) =>
                      /\ saida.cards_medias[k].temp_ar_min # formatar0(QDe(0))
                      /\ saida.cards_medias[k].temp_ar_max # formatar0(QDe(0))

\* The reported extreme e of the frame df is the value of a row of its
\* station and time, and no row with that value is stamped earlier.
MaisCedo(df, e) ==
    LET I == {i \in 1..Len(df) : df[i].temp_ar = e.valor}
    IN  /\ \E i \in I : df[i].nome_estacao = e.nome_estacao /\ df[i].tempo = e.tempo
        /\ \A i \in I : e.tempo <= df[i].tempo

\* C18: when several rows across the stations hold the highest (or lowest)
\* temperature, get_ext reports the station and time of the earliest one.
C18_EmpateMaisCedo ==
    (saida.feito /\ ~saida.vazio) =>
        \A df \in {filtrar(saida.df_completo, saida.est_filt)} :
            /\ saida.tmax.nome_estacao # "-" => MaisCedo(df, saida.tmax)
            /\ saida.tmin.nome_estacao # "-" => MaisCedo(df, saida.tmin)

C11_SaidasCompletas ==
    /\ saida.feito =>
          /\ Len(retorno) = 14
          /\ saida.excecao => retorno = empty_return_saidas
          /\ leitura = "erro" =>
                retorno = retornar(update_dashboard(<<>>, saida.now, saida.est_filt))
          /\ ~saida.vazio => retorno[1] = saida.options
    /\ saida_cemaden.feito =>
          /\ Len(retorno_cemaden) = 5
          /\ saida_cemaden.excecao => retorno_cemaden = empty_return_cemaden_saidas
          /\ leitura = "erro" =>
                retorno_cemaden =
                    retornar_cemaden(update_cemaden(<<>>, saida_cemaden.now,
                                                    saida_cemaden.est_filt))
          /\ ~saida_cemaden.vazio => retorno_cemaden[1] = saida_cemaden.options

\* Both callbacks have fired on a store that holds rows and failed: one read
\* raised, or the table had no column data_hora and the body raised.
C11_Witness ==
    \/ /\ leitura = "erro" /\ tabela # <<>>
       /\ saida.feito /\ saida_cemaden.feito
       /\ retorno = empty_return_saidas
    \/ /\ leitura = "sem_data_hora" /\ tabela_cemaden # <<>>
       /\ saida.feito /\ saida_cemaden.feito /\ saida_cemaden.excecao
       /\ retorno_cemaden = empty_return_cemaden_saidas

(***************************************************************************)
(* C17: in both pipelines two station names with the same canonical form   *)
(* are one station: the municipal refresh offers and partitions them as    *)
(* one, and the national refresh keeps one latest row for them.            *)
(***************************************************************************)
C17_UmaEstacaoPorNomeCanonico ==
    /\ saida.feito /\ ~saida.vazio =>
          \A i, j \in 1..Len(saida.df_completo) :
              limpar_nome_estacao(Simbolos(saida.df_completo[i].nome_estacao))
                  = limpar_nome_estacao(Simbolos(saida.df_completo[j].nome_estacao))
              => saida.df_completo[i].nome_estacao = saida.df_completo[j].nome_estacao
    /\ saida_cemaden.feito /\ ~saida_cemaden.vazio =>
          /\ \A i, j \in 1..Len(saida_cemaden.limpo) :
                limpar_nome_estacao(saida_cemaden.limpo[i].nome_estacao)
                    = limpar_nome_estacao(saida_cemaden.limpo[j].nome_estacao)
                => saida_cemaden.limpo[i].nome_limpo = saida_cemaden.limpo[j].nome_limpo
          /\ \A a, b \in 1..Len(saida_cemaden.ultimas) :
                saida_cemaden.ultimas[a].nome_limpo = saida_cemaden.ultimas[b].nome_limpo
                => a = b

(***************************************************************************)
(* C20: in both pipelines a value that cannot be read as a number becomes  *)
(* null in its record, never 0, every other value is kept, and the         *)
(* refresh goes on.                                                        *)
(***************************************************************************)
C20_CoercaoParaNulo ==
    /\ saida.feito /\ leitura = "ok" /\ tabela # <<>> =>
          /\ ~saida.excecao
          /\ \A j \in 1..Len(saida.dedup) :
                \E i \in 1..Len(tabela) :
                    /\ MesmaChave(tabela[i], saida.dedup[j])
                    /\ \A k \in (i + 1)..Len(tabela) : ~MesmaChave(tabela[k], tabela[i])
                    /\ saida.dedup[j].chuva_mm =
                          (IF tabela[i].chuva_mm = Malformado THEN NaN
                           ELSE tabela[i].chuva_mm)
                    /\ saida.dedup[j].temp_ar =
                          (IF tabela[i].temp_ar = Malformado THEN NaN
                           ELSE tabela[i].temp_ar)
    /\ saida_cemaden.feito /\ leitura = "ok" /\ tabela_cemaden # <<>> =>
          /\ ~saida_cemaden.excecao
          /\ \A r \in {Linhas(tabela_cemaden,
                         {i \in 1..Len(tabela_cemaden) :
                            tabela_cemaden[i].data_hora >= saida_cemaden.now - Dia})} :
                /\ Len(saida_cemaden.limpo) = Len(r)
                /\ \A i \in 1..Len(r) :
                      /\ r[i].chuva_24h = Malformado
                            => saida_cemaden.limpo[i].chuva_24h = NaN
                      /\ r[i].chuva_24h \notin {Malformado, NaN}
                            => saida_cemaden.limpo[i].chuva_24h = r[i].chuva_24h
(***************************************************************************)
(* Claims about resampling (checked under Spec)                            *)
(***************************************************************************)
\* The readings l of one station that fall in the bucket of tick t and hold a
\* value of the rain counter, and those that hold a temperature.
ComChuva(l, t) ==
    {i \in 1..Len(l) : Balde(l[i].tempo) = Balde(t) /\ ~isna(l[i].chuva_mm)}

ComTemp(l, t) ==
    {i \in 1..Len(l) : Balde(l[i].tempo) = Balde(t) /\ ~isna(l[i].temp_ar)}

\* The ticks of g populated with a rain value, and with a temperature.
TicksComChuva(g, l) == {k \in 1..Len(g) : ComChuva(l, g[k].tempo) # {}}

TicksComTemp(g, l) == {k \in 1..Len(g) : ComTemp(l, g[k].tempo) # {}}

\* The mean temperature of the readings of l in the bucket of tick t.
MediaTemp(l, t) ==
    LET I == ComTemp(l, t)
    IN  Q(Soma(Tupla([i \in 1..Len(l) |-> IF i \in I THEN l[i].temp_ar ELSE 0])),
          Cardinality(I))

\* The greatest counter value of the readings of l in the bucket of tick t.
MaxChuva(l, t) == Max({l[i].chuva_mm : i \in ComChuva(l, t)})

\* C24: the resampled rain counter of a station holds, at each tick, the
\* greatest value read in the tick's bucket when there is one, otherwise the
\* value of the latest earlier populated tick, otherwise 0; it is never null.
C24_ContadorReamostrado ==
    saida.feito =>
        \A e \in NomesEstacoes : \A g \in {TratadoDe(e)} : \A l \in {LidasDe(e)} :
            \A P \in {TicksComChuva(g, l)} :
                \A k \in 1..Len(g) :
                    /\ ~isna(g[k].acum)
                    /\ g[k].acum =
                          (IF k \in P THEN MaxChuva(l, g[k].tempo)
                           ELSE IF \E p \in P : p < k
                                THEN MaxChuva(l, g[Max({p \in P : p < k})].tempo)
                                ELSE 0)

\* A station whose first tick holds no counter value (0), whose next tick
\* holds one above 0, and a later empty tick that repeats it.
C24_Witness ==
    /\ saida.feito
    /\ \E e \in NomesEstacoes : \E g \in {TratadoDe(e)} : \E l \in {LidasDe(e)} :
          /\ Len(g) >= 3
          /\ ComChuva(l, g[1].tempo) = {} /\ g[1].acum = 0
          /\ ComChuva(l, g[2].tempo) # {} /\ g[2].acum > 0
          /\ ComChuva(l, g[3].tempo) = {} /\ g[3].acum = g[2].acum

\* The value at tick k on the line from tick p (value a) to tick q (value b).
NaLinha(a, b, p, q, k) ==
    Q(a.n * b.d * (q - p) + (b.n * a.d - a.n * b.d) * (k - p), a.d * b.d * (q - p))

\* C25: the resampled temperature of a station holds, at a tick with
\* readings, their mean, and at a tick without readings between two
\* populated ticks the value on the line between the nearest populated tick
\* on each side; no tick between the first and the last observation is null.
C25_MediaEInterpolacao ==
    saida.feito =>
        \A e \in NomesEstacoes : \A g \in {TratadoDe(e)} : \A l \in {LidasDe(e)} :
            \A P \in {TicksComTemp(g, l)} :
                \A k \in 1..Len(g) :
                    /\ k \in P => g[k].temp_ar = MediaTemp(l, g[k].tempo)
                    /\ (k \notin P /\ (\E p \in P : p < k) /\ (\E q \in P : q > k)) =>
                          LET p == Max({x \in P : x < k})
                              q == Min({x \in P : x > k})
                          IN  g[k].temp_ar =
                                NaLinha(MediaTemp(l, g[p].tempo),
                                        MediaTemp(l, g[q].tempo), p, q, k)
                    /\ (P # {} /\ Min(P) <= k /\ k <= Max(P)) => ~Qisna(g[k].temp_ar)

\* A station with two readings in one bucket (mean 25) and an empty tick
\* between two populated ticks with different temperatures.
C25_Witness ==
    /\ saida.feito
    /\ \E e \in NomesEstacoes : \E g \in {TratadoDe(e)} : \E l \in {LidasDe(e)} :
          \E P \in {TicksComTemp(g, l)} :
              /\ \E k \in P : Cardinality(ComTemp(l, g[k].tempo)) = 2
                               /\ g[k].temp_ar = QDe(25)
              /\ \E k \in 1..Len(g) :
                    /\ k \notin P /\ Min(P) < k /\ k < Max(P)
                    /\ g[k].temp_ar \notin {g[Min(P)].temp_ar, g[Max(P)].temp_ar}

\* C26: a station with one reading has a resampled series of one tick that
\* holds the reading's values, and a temperature with fewer than two
\* observed values is left as it is: the observed value stays at its tick
\* and every other tick, before or after it, stays null.
C26_SemExtrapolacao ==
    saida.feito =>
        \A e \in NomesEstacoes : \A g \in {TratadoDe(e)} : \A l \in {LidasDe(e)} :
            /\ Len(l) = 1 =>
                  /\ Len(g) = 1
                  /\ g[1].temp_ar = QDe(l[1].temp_ar)
                  /\ ~isna(l[1].chuva_mm) => g[1].acum = l[1].chuva_mm
            /\ \A P \in {TicksComTemp(g, l)} :
                  Cardinality(P) < 2 =>
                      \A k \in 1..Len(g) :
                          g[k].temp_ar = (IF k \in P THEN MediaTemp(l, g[k].tempo)
                                          ELSE QNaN)
(***************************************************************************)
(* Claims about the station filter and the map                             *)
(***************************************************************************)
\* C27: for one table and one clock, the station options, the per-station
\* aggregates and their cards, the current-reading rows and the map of
\* update_dashboard are the same for every value of the station filter: no
\* choice, a station with rows, a station without rows.
C27_FiltroSoNosDetalhes ==
    saida.feito =>
        \A f \in Filtros \cup {"EST_SEMULSP"} :
            \A r \in {update_dashboard(tabela, saida.now, f)} :
                /\ r.vazio = saida.vazio
                /\ r.options = saida.options
                /\ r.medias = saida.medias
                /\ r.cards_medias = saida.cards_medias
                /\ r.ultimas = saida.ultimas
                /\ r.mapa = saida.mapa

\* Both stations have rows, one is chosen in the filter, and the choice
\* changed the extremes.
C27_Witness ==
    /\ saida.feito /\ ~saida.vazio
    /\ saida.est_filt = "EST_MINDU (B)"
    /\ Len(saida.options) = 2
    /\ saida.tmax # update_dashboard(tabela, saida.now, "").tmax

\* The station names of the rows of a frame.
NomesDe(df) == {df[i].nome_estacao : i \in 1..Len(df)}

NomesLimposDe(df) == {df[i].nome_limpo : i \in 1..Len(df)}

SoDependeDasEntradas ==
    /\ saida.feito =>
          /\ saida = callback_dashboard(leitura, tabela, saida.now, saida.est_filt)
          /\ retorno = retornar(saida)
    /\ saida_cemaden.feito =>
          /\ saida_cemaden = callback_cemaden(leitura, tabela_cemaden,
                                              saida_cemaden.now, saida_cemaden.est_filt)
          /\ retorno_cemaden = retornar_cemaden(saida_cemaden)

C23_UltimaLeitura ==
    (saida_cemaden.feito /\ ~saida_cemaden.vazio) =>
        \A r \in {Linhas(tabela_cemaden,
                    {i \in 1..Len(tabela_cemaden) :
                       tabela_cemaden[i].data_hora >= saida_cemaden.now - Dia})} :
            \A k \in 1..Len(saida_cemaden.ultimas) :
                LET linha == saida_cemaden.ultimas[k]
                    I == {i \in 1..Len(r) :
                            limpar_nome_estacao(r[i].nome_estacao) = linha.nome_limpo}
                IN  /\ I # {}
                    /\ \A i \in I : r[i].data_hora <= r[Max(I)].data_hora
                    /\ linha.data_hora = r[Max(I)].data_hora
                    /\ r[Max(I)].chuva_24h \notin {NaN, Malformado}
                          => linha.chuva_24h = r[Max(I)].chuva_24h
                    /\ linha.nivel_alerta = get_nivel_alerta(linha.chuva_24h)

\* A station with two readings of the last 24 hours, 35 mm and then 80 mm,
\* is shown with 80 mm and CRÍTICO.
C23_Witness ==
    /\ saida_cemaden.feito /\ ~saida_cemaden.vazio
    /\ Len(saida_cemaden.limpo) = 2 /\ Len(saida_cemaden.ultimas) = 1
    /\ saida_cemaden.limpo[1].chuva_24h = 350
    /\ saida_cemaden.limpo[1].data_hora < saida_cemaden.limpo[2].data_hora
    /\ saida_cemaden.ultimas[1].chuva_24h = 800
    /\ saida_cemaden.ultimas[1].nivel_alerta = "CRÍTICO"
(***************************************************************************)
(* Claims about the report (checked under SpecRelatorio)                   *)
(***************************************************************************)
\* The readings of station e on day d that the query of the report selects.
LeiturasDoDia(e, d) ==
    {i \in 1..Len(tabela) :
        /\ tabela[i].nome_estacao = e /\ DiaDe(tabela[i].tempo) = d
        /\ relatorio.start_date <= d /\ d <= relatorio.end_date}

\* C30: the daily report holds, for each selected station, one row per day
\* with a reading, its rain the sum of that day's readings, and no row for a
\* station and day without any reading; with no station selected it is
\* empty and the store is not read.
C30_RelatorioDiario ==
    (relatorio.feito /\ relatorio.freq = "D" /\ leitura = "ok") =>
        /\ relatorio.stations = {} =>
              relatorio.linhas = <<>> /\ ~relatorio.consultou
        /\ \A k \in 1..Len(relatorio.linhas) :
              relatorio.linhas[k].nome_estacao \in relatorio.stations
        /\ \A e \in relatorio.stations : \A d \in 0..MaxDia :
              \A I \in {LeiturasDoDia(e, d)} :
              \A K \in {{k \in 1..Len(relatorio.linhas) :
                           /\ relatorio.linhas[k].nome_estacao = e
                           /\ relatorio.linhas[k].dia = d}} :
                  IF I = {} THEN K = {}
                  ELSE /\ Cardinality(K) = 1
                       /\ \A k \in K :
                             relatorio.linhas[k].chuva_mm =
                                Soma(Tupla([i \in 1..Len(tabela) |->
                                    IF i \in I /\ ~isna(tabela[i].chuva_mm)
                                    THEN tabela[i].chuva_mm ELSE 0]))
====
